---- MODULE Spec2Model ----
(***************************************************************************)
(* A model of the SDG agent (kernel_agents/sdg_agent.py) and of the SDG    *)
(* tool class with its reflective registry (kernel_tools/sdg_tools.py).    *)
(*                                                                         *)
(* Text is modelled as a sequence.  Free text supplied by a caller         *)
(* (messages, project descriptions, identifiers) is a sequence of          *)
(* one-character strings, so that lower(), slicing, substring search and   *)
(* ordering are computed character by character.  The fixed blocks of a    *)
(* template are kept as single multi-character elements.                   *)
(***************************************************************************)
EXTENDS Integers, Sequences, FiniteSets, TLC

VARIABLES
    pc,        \* agent: "idle", "awaiting" (suspended in completion_with_retry), "done"
    op,        \* agent: the operation the caller invoked
    arg,       \* agent: the free-text argument of that operation
    sdg,       \* agent: the sdg_number argument, <<>> for None, <<n>> for n
    invoked,   \* agent: the specialised handlers entered during this call, in order
    calls,     \* agent: the prompts handed to completion_with_retry during this call
    reply,     \* agent: how the awaited completion_with_retry call ended, NoValue before
    ret,       \* agent: the value returned to the caller, NoValue if none
    exc,       \* agent: the exception that reached the caller, NoValue if none
    cls,       \* registry: the tool class, a sequence of members in declaration order
    kf,        \* registry: <<result>> of the latest get_all_kernel_functions call, <<>> before
    kfPrev,    \* registry: <<result>> of the call before that one, <<>> before
    doc,       \* registry: <<result>> of the latest generate_tools_json_doc call, <<>> before
    inv,       \* registry: outcome of the latest invocation of a tool by name, <<>> before
    tool       \* tools: the tool call in progress, with its arguments and text, <<>> if none

vars == <<pc, op, arg, sdg, invoked, calls, reply, ret, exc, cls, kf, kfPrev, doc, inv, tool>>

agentVars == <<pc, op, arg, sdg, invoked, calls, reply, ret, exc>>
registryVars == <<cls, kf, kfPrev, doc, inv>>

NoValue == <<"NoValue">>

(***************************************************************************)
(* Bounds of the model.                                                    *)
(***************************************************************************)
MaxFrags == 2

MaxMethods == 3

MaxDescLen == 52

(***************************************************************************)
(* Characters and strings.                                                 *)
(***************************************************************************)
UpperCase ==
    <<"A","B","C","D","E","F","G","H","I","J","K","L","M","N","O","P","Q","R","S","T","U","V","W","X","Y","Z">>

LowerCase ==
    <<"a","b","c","d","e","f","g","h","i","j","k","l","m","n","o","p","q","r","s","t","u","v","w","x","y","z">>

Digits ==
    <<"0","1","2","3","4","5","6","7","8","9">>

IndexOf(seq, c) == CHOOSE i \in DOMAIN seq : seq[i] = c

IsIn(seq, c) == \E i \in DOMAIN seq : seq[i] = c

\* str.lower() on one character
LowerChar(c) == IF IsIn(UpperCase, c) THEN LowerCase[IndexOf(UpperCase, c)] ELSE c

\* str.lower()
lower(s) == [i \in DOMAIN s |-> LowerChar(s[i])]

\* Python's  sub in s  on strings
Contains(s, sub) ==
    \E i \in 0..(Len(s) - Len(sub)) : SubSeq(s, i + 1, i + Len(sub)) = sub

\* str(n) for an integer, as used by an f-string field
RECURSIVE NatStr(_)
NatStr(n) == IF n < 10 THEN <<Digits[n + 1]>> ELSE NatStr(n \div 10) \o <<Digits[(n % 10) + 1]>>

IntStr(n) == IF n < 0 THEN <<"-">> \o NatStr(-n) ELSE NatStr(n)

(***************************************************************************)
(* SDGAgent (sdg_agent.py).                                                *)
(***************************************************************************)
kw_analyze ==
    <<"a","n","a","l","y","z","e">>
kw_alignment ==
    <<"a","l","i","g","n","m","e","n","t">>
kw_sdg ==
    <<"s","d","g">>
kw_indicator ==
    <<"i","n","d","i","c","a","t","o","r">>
kw_measure ==
    <<"m","e","a","s","u","r","e">>
kw_metric ==
    <<"m","e","t","r","i","c">>
kw_agency ==
    <<"a","g","e","n","c","y">>
kw_agencies ==
    <<"a","g","e","n","c","i","e","s">>
kw_partner ==
    <<"p","a","r","t","n","e","r">>

\* the three conditions of process_message, in the order the code tests them
MatchesAlignment(message) ==
    \/ Contains(lower(message), kw_analyze)
    \/ Contains(lower(message), kw_alignment)
    \/ Contains(lower(message), kw_sdg)

MatchesIndicators(message) ==
    \/ Contains(lower(message), kw_indicator)
    \/ Contains(lower(message), kw_measure)
    \/ Contains(lower(message), kw_metric)

MatchesAgencies(message) ==
    \/ Contains(lower(message), kw_agency)
    \/ Contains(lower(message), kw_agencies)
    \/ Contains(lower(message), kw_partner)

\* Mutants of the routing chain: the second test made first, the first test
\* made on the text as given, the keyword "agency" left out of the third test.
RouteIndicatorsFirst(message) ==
    IF MatchesIndicators(message) THEN "suggest_sdg_indicators"
    ELSE IF MatchesAlignment(message) THEN "analyze_sdg_alignment"
    ELSE IF MatchesAgencies(message) THEN "identify_un_agencies"
    ELSE "completion"

RouteCaseSensitive(message) ==
    IF Contains(message, kw_analyze) \/ Contains(message, kw_alignment) \/ Contains(message, kw_sdg)
        THEN "analyze_sdg_alignment"
    ELSE IF MatchesIndicators(message) THEN "suggest_sdg_indicators"
    ELSE IF MatchesAgencies(message) THEN "identify_un_agencies"
    ELSE "completion"

RouteNoAgency(message) ==
    IF MatchesAlignment(message) THEN "analyze_sdg_alignment"
    ELSE IF MatchesIndicators(message) THEN "suggest_sdg_indicators"
    ELSE IF Contains(lower(message), kw_agencies) \/ Contains(lower(message), kw_partner)
        THEN "identify_un_agencies"
    ELSE "completion"

\* the if / elif / elif / else chain of process_message
Route(message) ==
    IF MatchesAlignment(message) THEN "analyze_sdg_alignment"
    ELSE IF MatchesIndicators(message) THEN "suggest_sdg_indicators"
    ELSE IF MatchesAgencies(message) THEN "identify_un_agencies"
    ELSE "completion"

\* truth value of  sdg_number  in  if sdg_number:
Truthy(n) == n # <<>> /\ n[1] # 0

AlignmentPrompt(project_description, sdg_number) ==
    IF Truthy(sdg_number)
    THEN <<"Please analyze the following project for alignment with SDG ">>
         \o IntStr(sdg_number[1]) \o <<":\n\n">> \o project_description
         \o <<"\n\nFor SDG ">> \o IntStr(sdg_number[1])
         \o <<":\n1. Identify which specific targets the project addresses\n2. Rate the alignment (strong, moderate, weak)\n3. Suggest metrics that could be used to measure progress\n4. Recommend improvements to strengthen SDG alignment\n\nProvide a concise summary highlighting how the project contributes to SDG ">>
         \o IntStr(sdg_number[1]) \o <<".">>
    ELSE <<"Please analyze the following project for alignment with the UN Sustainable Development Goals:\n\n">>
         \o project_description
         \o <<"\n\nFor each relevant SDG:\n1. Identify which specific targets the project addresses\n2. Rate the alignment (strong, moderate, weak)\n3. Suggest metrics that could be used to measure progress\n4. Recommend improvements to strengthen SDG alignment\n\nProvide a concise summary at the end highlighting the primary SDGs addressed.">>

IndicatorsPrompt(project_description) ==
    <<"Based on the following project description, suggest appropriate SDG indicators that could be used to measure progress and impact:\n\n">>
    \o project_description
    \o <<"\n\nFor each suggested indicator:\n1. Identify the specific SDG and target it relates to\n2. Explain why this indicator is appropriate for this project\n3. Suggest practical data collection methods\n4. Note any potential challenges in measurement">>

AgenciesPrompt(initiative_description) ==
    <<"Based on the following initiative, identify the most relevant UN agencies and entities that could provide support, expertise, or partnership:\n\n">>
    \o initiative_description
    \o <<"\n\nFor each identified agency:\n1. Explain their relevance to this initiative\n2. Note their specific expertise or resources that would be valuable\n3. Suggest potential mechanisms for engagement (e.g., technical assistance, funding, partnership)">>

\* Mutant: the fallback sends the lower-cased text the routing tests looked at.
FallbackPromptLowered(message) == lower(message)

\* line 191: the fallback hands the message itself to the completion client
FallbackPrompt(message) == message

\* the prompt each branch of process_message ends up sending
PromptOf(handler, text, sdg_number) ==
    CASE handler = "analyze_sdg_alignment" -> AlignmentPrompt(text, sdg_number)
      [] handler = "suggest_sdg_indicators" -> IndicatorsPrompt(text)
      [] handler = "identify_un_agencies" -> AgenciesPrompt(text)
      [] handler = "completion" -> FallbackPrompt(text)

\* the single-key dictionaries the three handlers return
HandlerResult(handler, response) ==
    CASE handler = "analyze_sdg_alignment" -> [analysis |-> response]
      [] handler = "suggest_sdg_indicators" -> [indicators |-> response]
      [] handler = "identify_un_agencies" -> [agencies |-> response]

\* what process_message returns once the awaited call has produced response
ProcessResult(handler, response) ==
    CASE handler = "analyze_sdg_alignment" -> HandlerResult(handler, response).analysis
      [] handler = "suggest_sdg_indicators" -> HandlerResult(handler, response).indicators
      [] handler = "identify_un_agencies" -> HandlerResult(handler, response).agencies
      [] handler = "completion" -> response

\* Mutant: a failure of the completion call is swallowed and an empty result returned.
OnFailureSwallowed(error) == [ret |-> <<>>, exc |-> NoValue]

\* no operation of the agent catches anything: the exception leaves the coroutine
OnFailure(error) == [ret |-> NoValue, exc |-> error]

Handlers == {"analyze_sdg_alignment", "suggest_sdg_indicators", "identify_un_agencies"}

\* what the completion client may answer, and how it may fail
Responses == {"response A", "response B"}

Errors == {"TimeoutError", "ServiceError"}

SdgNumbers == {<<>>, <<-1>>, <<0>>, <<4>>, <<17>>}

Fragments ==
    { <<"A","n","a","l","y","z","e">>,
      <<"a","l","i","g","n","m","e","n","t">>,
      <<"S","D","G">>,
      <<"s">>,
      <<"d","g">>,
      <<"i","n","d","i","c","a","t","o","r">>,
      <<"M","e","a","s","u","r","e">>,
      <<"M","e","t","r","i","c">>,
      <<"a","g","e","n","c","y">>,
      <<"A","g","e","n","c","i","e","s">>,
      <<"P","A","R","T","N","E","R">>,
      <<"h","e","l","l","o">>,
      <<"H","i">>,
      <<"p","a","r","t","n","e","r"," ","i","n","d","i","c","a","t","o","r">>,
      <<" ">> }

RECURSIVE Texts(_)
Texts(n) ==
    IF n = 0 THEN {<<>>}
    ELSE LET shorter == Texts(n - 1)
         IN  shorter \cup {t \o f : t \in shorter, f \in Fragments}

Messages == Texts(MaxFrags)

\* the synchronous part of a call, up to the await of completion_with_retry
Begin(operation, handler, text, sdg_number) ==
    /\ pc' = "awaiting"
    /\ op' = operation
    /\ arg' = text
    /\ sdg' = sdg_number
    /\ invoked' = IF handler = "completion" THEN <<>> ELSE <<handler>>
    /\ calls' = <<PromptOf(handler, text, sdg_number)>>
    /\ reply' = NoValue
    /\ ret' = NoValue
    /\ exc' = NoValue
    /\ UNCHANGED <<cls, kf, kfPrev, doc, inv, tool>>

process_message ==
    /\ pc = "idle"
    /\ \E message \in Messages :
        Begin("process_message", Route(message), message, <<>>)

analyze_sdg_alignment ==
    /\ pc = "idle"
    /\ \E project_description \in Messages, sdg_number \in SdgNumbers :
        Begin("analyze_sdg_alignment", "analyze_sdg_alignment", project_description, sdg_number)

suggest_sdg_indicators ==
    /\ pc = "idle"
    /\ \E project_description \in Messages :
        Begin("suggest_sdg_indicators", "suggest_sdg_indicators", project_description, <<>>)

identify_un_agencies ==
    /\ pc = "idle"
    /\ \E initiative_description \in Messages :
        Begin("identify_un_agencies", "identify_un_agencies", initiative_description, <<>>)

\* the branch of the suspended call
Branch == IF invoked = <<>> THEN "completion" ELSE invoked[Len(invoked)]

CompletionReturns ==
    \E response \in Responses :
        /\ pc = "awaiting"
        /\ pc' = "done"
        /\ reply' = [kind |-> "returned", value |-> response]
        /\ ret' = IF op = "process_message"
                  THEN ProcessResult(Branch, response)
                  ELSE HandlerResult(op, response)
        /\ exc' = NoValue
        /\ UNCHANGED <<op, arg, sdg, invoked, calls, cls, kf, kfPrev, doc, inv, tool>>

CompletionFails ==
    \E error \in Errors :
        /\ pc = "awaiting"
        /\ pc' = "done"
        /\ reply' = [kind |-> "raised", value |-> error]
        /\ ret' = OnFailure(error).ret
        /\ exc' = OnFailure(error).exc
        /\ UNCHANGED <<op, arg, sdg, invoked, calls, cls, kf, kfPrev, doc, inv, tool>>

\* the caller takes the outcome; the agent keeps nothing from one call to the next
Return ==
    /\ pc = "done"
    /\ pc' = "idle"
    /\ op' = "none"
    /\ arg' = <<>>
    /\ sdg' = <<>>
    /\ invoked' = <<>>
    /\ calls' = <<>>
    /\ reply' = NoValue
    /\ ret' = NoValue
    /\ exc' = NoValue
    /\ UNCHANGED <<cls, kf, kfPrev, doc, inv, tool>>

AgentIdle ==
    /\ pc = "idle"
    /\ op = "none"
    /\ arg = <<>>
    /\ sdg = <<>>
    /\ invoked = <<>>
    /\ calls = <<>>
    /\ reply = NoValue
    /\ ret = NoValue
    /\ exc = NoValue


(***************************************************************************)
(* SDGTools (sdg_tools.py): the class and its reflective registry.         *)
(*                                                                         *)
(* A class is the sequence of its members in declaration order.  A member  *)
(* records what reflection sees of it: its name, whether getattr on the    *)
(* class yields a plain function (a staticmethod or a def), a bound method *)
(* (a classmethod) or a value, whether kernel_function set                 *)
(* __kernel_function__ on it, and its annotations.  The decorator stores   *)
(* True as the marker, which has no description attribute, so               *)
(* marker_description is empty for the methods of SDGTools; doc is the     *)
(* docstring without surrounding blanks.  A type object records whether it *)
(* has __name__ and the text str() gives for it.                           *)
(***************************************************************************)
T_int ==
    [ named |-> TRUE, name |-> <<"i","n","t">>,
      text |-> <<"<","c","l","a","s","s"," ","'","i","n","t","'",">">> ]

T_float ==
    [ named |-> TRUE, name |-> <<"f","l","o","a","t">>,
      text |-> <<"<","c","l","a","s","s"," ","'","f","l","o","a","t","'",">">> ]

T_bool ==
    [ named |-> TRUE, name |-> <<"b","o","o","l">>,
      text |-> <<"<","c","l","a","s","s"," ","'","b","o","o","l","'",">">> ]

T_str ==
    [ named |-> TRUE, name |-> <<"s","t","r">>,
      text |-> <<"<","c","l","a","s","s"," ","'","s","t","r","'",">">> ]

T_List_int ==
    [ named |-> TRUE, name |-> <<"L","i","s","t">>,
      text |-> <<"t","y","p","i","n","g",".","L","i","s","t","[","i","n","t","]">> ]

T_int_or_None ==
    [ named |-> FALSE, name |-> <<>>,
      text |-> <<"i","n","t"," ","|"," ","N","o","n","e">> ]

T_float_or_None ==
    [ named |-> FALSE, name |-> <<>>,
      text |-> <<"f","l","o","a","t"," ","|"," ","N","o","n","e">> ]

T_bool_or_None ==
    [ named |-> FALSE, name |-> <<>>,
      text |-> <<"b","o","o","l"," ","|"," ","N","o","n","e">> ]

T_str_or_None ==
    [ named |-> FALSE, name |-> <<>>,
      text |-> <<"s","t","r"," ","|"," ","N","o","n","e">> ]

tag_int ==
    <<"i","n","t">>

tag_float ==
    <<"f","l","o","a","t">>

tag_bool ==
    <<"b","o","o","l">>

tag_boolean ==
    <<"b","o","o","l","e","a","n">>

tag_string ==
    <<"s","t","r","i","n","g">>

nm_analyze_sdg4_alignment ==
    <<"a","n","a","l","y","z","e","_","s","d","g","4","_","a","l","i","g","n","m","e","n","t">>

nm_analyze_sdg_alignment ==
    <<"a","n","a","l","y","z","e","_","s","d","g","_","a","l","i","g","n","m","e","n","t">>

nm_analyze_teacher_training ==
    <<"a","n","a","l","y","z","e","_","t","e","a","c","h","e","r","_","t","r","a","i","n","i","n","g">>

nm_analyze_digital_learning_tools ==
    <<"a","n","a","l","y","z","e","_","d","i","g","i","t","a","l","_","l","e","a","r","n","i","n","g","_","t","o","o","l","s">>

nm_analyze_gender_equality_in_education ==
    <<"a","n","a","l","y","z","e","_","g","e","n","d","e","r","_","e","q","u","a","l","i","t","y","_","i","n","_","e","d","u","c","a","t","i","o","n">>

nm_analyze_education_accessibility ==
    <<"a","n","a","l","y","z","e","_","e","d","u","c","a","t","i","o","n","_","a","c","c","e","s","s","i","b","i","l","i","t","y">>

nm_suggest_sdg_indicators ==
    <<"s","u","g","g","e","s","t","_","s","d","g","_","i","n","d","i","c","a","t","o","r","s">>

nm_identify_un_agencies ==
    <<"i","d","e","n","t","i","f","y","_","u","n","_","a","g","e","n","c","i","e","s">>

nm_generate_sdg_recommendations ==
    <<"g","e","n","e","r","a","t","e","_","s","d","g","_","r","e","c","o","m","m","e","n","d","a","t","i","o","n","s">>

nm_analyze_sdg_interlinkages ==
    <<"a","n","a","l","y","z","e","_","s","d","g","_","i","n","t","e","r","l","i","n","k","a","g","e","s">>

nm_provide_sdg_implementation_guidance ==
    <<"p","r","o","v","i","d","e","_","s","d","g","_","i","m","p","l","e","m","e","n","t","a","t","i","o","n","_","g","u","i","d","a","n","c","e">>

nm_get_all_kernel_functions ==
    <<"g","e","t","_","a","l","l","_","k","e","r","n","e","l","_","f","u","n","c","t","i","o","n","s">>

nm_generate_tools_json_doc ==
    <<"g","e","n","e","r","a","t","e","_","t","o","o","l","s","_","j","s","o","n","_","d","o","c">>

nm_formatting_instructions ==
    <<"f","o","r","m","a","t","t","i","n","g","_","i","n","s","t","r","u","c","t","i","o","n","s">>

nm_agent_name ==
    <<"a","g","e","n","t","_","n","a","m","e">>

nm_project_description ==
    <<"p","r","o","j","e","c","t","_","d","e","s","c","r","i","p","t","i","o","n">>

nm_sdg_number ==
    <<"s","d","g","_","n","u","m","b","e","r">>

nm_primary_sdg ==
    <<"p","r","i","m","a","r","y","_","s","d","g">>

nm_target_number ==
    <<"t","a","r","g","e","t","_","n","u","m","b","e","r">>

nm_kernel_function ==
    <<"k","e","r","n","e","l","_","f","u","n","c","t","i","o","n">>

nm_return ==
    <<"r","e","t","u","r","n">>

analyze_sdg4_alignment_member ==
    [ name |-> nm_analyze_sdg4_alignment, kind |-> "staticmethod", kernel |-> TRUE,
      marker_description |-> "",
      doc |-> "Analyze how a project aligns with SDG 4 (Quality Education) and its targets. Use this for ANY education-related query.",
      params |-> <<[name |-> nm_project_description, type |-> <<T_str>>]>>,
      returns |-> <<T_str>> ]

analyze_sdg_alignment_member ==
    [ name |-> nm_analyze_sdg_alignment, kind |-> "staticmethod", kernel |-> TRUE,
      marker_description |-> "",
      doc |-> "Analyze how a project aligns with a specified SDG and its targets.",
      params |-> <<[name |-> nm_sdg_number, type |-> <<T_int>>], [name |-> nm_project_description, type |-> <<T_str>>]>>,
      returns |-> <<T_str>> ]

analyze_teacher_training_member ==
    [ name |-> nm_analyze_teacher_training, kind |-> "staticmethod", kernel |-> TRUE,
      marker_description |-> "",
      doc |-> "Evaluate how a project's teacher training components align with SDG 4.",
      params |-> <<[name |-> nm_project_description, type |-> <<T_str>>]>>,
      returns |-> <<T_str>> ]

analyze_digital_learning_tools_member ==
    [ name |-> nm_analyze_digital_learning_tools, kind |-> "staticmethod", kernel |-> TRUE,
      marker_description |-> "",
      doc |-> "Evaluate how a project's digital learning tools align with SDG 4.",
      params |-> <<[name |-> nm_project_description, type |-> <<T_str>>]>>,
      returns |-> <<T_str>> ]

analyze_gender_equality_in_education_member ==
    [ name |-> nm_analyze_gender_equality_in_education, kind |-> "staticmethod", kernel |-> TRUE,
      marker_description |-> "",
      doc |-> "Evaluate how a project addresses gender equality in education (SDG 4.5).",
      params |-> <<[name |-> nm_project_description, type |-> <<T_str>>]>>,
      returns |-> <<T_str>> ]

analyze_education_accessibility_member ==
    [ name |-> nm_analyze_education_accessibility, kind |-> "staticmethod", kernel |-> TRUE,
      marker_description |-> "",
      doc |-> "Evaluate how a project addresses accessibility for persons with disabilities in education (SDG 4.5).",
      params |-> <<[name |-> nm_project_description, type |-> <<T_str>>]>>,
      returns |-> <<T_str>> ]

suggest_sdg_indicators_member ==
    [ name |-> nm_suggest_sdg_indicators, kind |-> "staticmethod", kernel |-> TRUE,
      marker_description |-> "",
      doc |-> "Suggest SDG indicators for tracking project impact.",
      params |-> <<[name |-> nm_sdg_number, type |-> <<T_int>>]>>,
      returns |-> <<T_str>> ]

identify_un_agencies_member ==
    [ name |-> nm_identify_un_agencies, kind |-> "staticmethod", kernel |-> TRUE,
      marker_description |-> "",
      doc |-> "Identify UN agencies relevant to a specific SDG.",
      params |-> <<[name |-> nm_sdg_number, type |-> <<T_int>>]>>,
      returns |-> <<T_str>> ]

generate_sdg_recommendations_member ==
    [ name |-> nm_generate_sdg_recommendations, kind |-> "staticmethod", kernel |-> TRUE,
      marker_description |-> "",
      doc |-> "Generate SDG-specific recommendations for a project.",
      params |-> <<[name |-> nm_sdg_number, type |-> <<T_int>>], [name |-> nm_project_description, type |-> <<T_str>>]>>,
      returns |-> <<T_str>> ]

analyze_sdg_interlinkages_member ==
    [ name |-> nm_analyze_sdg_interlinkages, kind |-> "staticmethod", kernel |-> TRUE,
      marker_description |-> "",
      doc |-> "Analyze interlinkages between SDGs for a project.",
      params |-> <<[name |-> nm_primary_sdg, type |-> <<T_int>>], [name |-> nm_project_description, type |-> <<T_str>>]>>,
      returns |-> <<T_str>> ]

provide_sdg_implementation_guidance_member ==
    [ name |-> nm_provide_sdg_implementation_guidance, kind |-> "staticmethod", kernel |-> TRUE,
      marker_description |-> "",
      doc |-> "Provide implementation guidance for SDG targets.",
      params |-> <<[name |-> nm_sdg_number, type |-> <<T_int>>], [name |-> nm_target_number, type |-> <<T_str>>]>>,
      returns |-> <<T_str>> ]

get_all_kernel_functions_member ==
    [ name |-> nm_get_all_kernel_functions, kind |-> "classmethod", kernel |-> FALSE,
      marker_description |-> "", doc |-> "", params |-> <<>>, returns |-> <<>> ]

generate_tools_json_doc_member ==
    [ name |-> nm_generate_tools_json_doc, kind |-> "classmethod", kernel |-> FALSE,
      marker_description |-> "", doc |-> "", params |-> <<>>, returns |-> <<>> ]

nm__private_tool ==
    <<"_","p","r","i","v","a","t","e","_","t","o","o","l">>

nm_helper ==
    <<"h","e","l","p","e","r">>

nm_annotated_helper ==
    <<"a","n","n","o","t","a","t","e","d","_","h","e","l","p","e","r">>

nm_Zeta_tool ==
    <<"Z","e","t","a","_","t","o","o","l">>

nm_list_tool ==
    <<"l","i","s","t","_","t","o","o","l">>

nm_union_tool ==
    <<"u","n","i","o","n","_","t","o","o","l">>

nm_x ==
    <<"x">>

nm_count ==
    <<"c","o","u","n","t">>

nm_ratio ==
    <<"r","a","t","i","o">>

nm_flag ==
    <<"f","l","a","g">>

nm_label ==
    <<"l","a","b","e","l">>

nm_items ==
    <<"i","t","e","m","s">>

nm_maybe ==
    <<"m","a","y","b","e">>

nm_raw ==
    <<"r","a","w">>

nm_a ==
    <<"a">>

nm_b ==
    <<"b">>

nm_c ==
    <<"c">>

formatting_instructions_member ==
    [ name |-> nm_formatting_instructions, kind |-> "attribute", kernel |-> FALSE,
      marker_description |-> "", doc |-> "", params |-> <<>>, returns |-> <<>> ]

agent_name_member ==
    [ name |-> nm_agent_name, kind |-> "attribute", kernel |-> FALSE,
      marker_description |-> "", doc |-> "", params |-> <<>>, returns |-> <<>> ]

\* the body of class SDGTools, in declaration order
SDGTools ==
    << formatting_instructions_member,
       agent_name_member,
       analyze_sdg4_alignment_member,
       analyze_sdg_alignment_member,
       analyze_teacher_training_member,
       analyze_digital_learning_tools_member,
       analyze_gender_equality_in_education_member,
       analyze_education_accessibility_member,
       suggest_sdg_indicators_member,
       identify_un_agencies_member,
       generate_sdg_recommendations_member,
       analyze_sdg_interlinkages_member,
       provide_sdg_implementation_guidance_member,
       get_all_kernel_functions_member,
       generate_tools_json_doc_member >>

Zeta_tool_member ==
    [ name |-> nm_Zeta_tool, kind |-> "staticmethod", kernel |-> TRUE,
      marker_description |-> "A tool over the scalar types", doc |-> "",
      params |-> << [name |-> nm_count, type |-> <<T_int>>],
                    [name |-> nm_ratio, type |-> <<T_float>>],
                    [name |-> nm_flag, type |-> <<T_bool>>],
                    [name |-> nm_label, type |-> <<T_str>>] >>,
      returns |-> <<T_str>> ]

list_tool_member ==
    [ name |-> nm_list_tool, kind |-> "staticmethod", kernel |-> TRUE,
      marker_description |-> "", doc |-> "A tool documented by its docstring only",
      params |-> << [name |-> nm_items, type |-> <<T_List_int>>],
                    [name |-> nm_maybe, type |-> <<T_int_or_None>>],
                    [name |-> nm_raw, type |-> <<>>] >>,
      returns |-> <<T_str>> ]

union_tool_member ==
    [ name |-> nm_union_tool, kind |-> "function", kernel |-> TRUE,
      marker_description |-> "", doc |-> "",
      params |-> << [name |-> nm_a, type |-> <<T_float_or_None>>],
                    [name |-> nm_b, type |-> <<T_bool_or_None>>],
                    [name |-> nm_c, type |-> <<T_str_or_None>>] >>,
      returns |-> <<>> ]

\* a marked function whose name starts with the private prefix
private_tool_member ==
    [ name |-> nm__private_tool, kind |-> "staticmethod", kernel |-> TRUE,
      marker_description |-> "", doc |-> "",
      params |-> <<>>, returns |-> <<T_str>> ]

\* an unmarked function
helper_member ==
    [ name |-> nm_helper, kind |-> "staticmethod", kernel |-> FALSE,
      marker_description |-> "", doc |-> "",
      params |-> << [name |-> nm_x, type |-> <<T_str>>] >>, returns |-> <<T_str>> ]

\* an unmarked function with a parameter named kernel_function
annotated_helper_member ==
    [ name |-> nm_annotated_helper, kind |-> "staticmethod", kernel |-> FALSE,
      marker_description |-> "", doc |-> "",
      params |-> << [name |-> nm_kernel_function, type |-> <<T_str>>] >>,
      returns |-> <<T_str>> ]

\* the methods a tool class of the model may declare besides the registry's own
Candidates ==
    << provide_sdg_implementation_guidance_member,
       analyze_sdg_alignment_member,
       analyze_sdg4_alignment_member,
       Zeta_tool_member,
       list_tool_member,
       union_tool_member,
       private_tool_member,
       helper_member,
       annotated_helper_member >>

Reverse(seq) == [i \in DOMAIN seq |-> seq[Len(seq) + 1 - i]]

\* the candidates at the positions in picked, in the order of Candidates
RECURSIVE Pick(_, _)
Pick(picked, from) ==
    IF from > Len(Candidates) THEN <<>>
    ELSE (IF from \in picked THEN <<Candidates[from]>> ELSE <<>>) \o Pick(picked, from + 1)

\* a class built on the registry code around the given methods
ToolClass(methods) ==
    <<formatting_instructions_member, agent_name_member>> \o methods
    \o <<get_all_kernel_functions_member, generate_tools_json_doc_member>>

Classes ==
    {SDGTools} \cup
    UNION { {ToolClass(Pick(picked, 1)), ToolClass(Reverse(Pick(picked, 1)))} :
            picked \in {s \in SUBSET DOMAIN Candidates : Cardinality(s) <= MaxMethods} }

\* code point order of the characters identifiers are made of
CodeOrder == Digits \o UpperCase \o <<"_">> \o LowerCase

Ord(c) == IndexOf(CodeOrder, c)

\* s < t on Python strings
RECURSIVE StrLess(_, _)
StrLess(s, t) ==
    IF t = <<>> THEN FALSE
    ELSE IF s = <<>> THEN TRUE
    ELSE IF s[1] = t[1] THEN StrLess(Tail(s), Tail(t))
    ELSE Ord(s[1]) < Ord(t[1])

RECURSIVE InsertByName(_, _)
InsertByName(m, sorted) ==
    IF sorted = <<>> THEN <<m>>
    ELSE IF StrLess(m.name, sorted[1].name) THEN <<m>> \o sorted
    ELSE <<sorted[1]>> \o InsertByName(m, Tail(sorted))

\* results.sort(key=lambda pair: pair[0]) of inspect.getmembers
RECURSIVE SortByName(_)
SortByName(members) ==
    IF members = <<>> THEN <<>>
    ELSE InsertByName(members[1], SortByName(Tail(members)))

\* inspect.isfunction on getattr(cls, name)
IsFunction(m) == m.kind \in {"staticmethod", "function"}

\* Mutant: the members in the order the class declares them.
GetMembersDeclared(c) == SelectSeq(c, IsFunction)

\* inspect.getmembers(cls, predicate=inspect.isfunction)
GetMembers(c) == SortByName(SelectSeq(c, IsFunction))

StartsWith(s, prefix) ==
    Len(s) >= Len(prefix) /\ SubSeq(s, 1, Len(prefix)) = prefix

RECURSIVE JoinItems(_)
JoinItems(items) ==
    IF items = <<>> THEN <<>>
    ELSE IF Len(items) = 1 THEN items[1]
    ELSE items[1] \o <<",", " ">> \o JoinItems(Tail(items))

\* the annotations a function carries: its annotated parameters, then 'return'
Annotations(m) ==
    SelectSeq(m.params, LAMBDA p : p.type # <<>>)
    \o (IF m.returns = <<>> THEN <<>> ELSE <<[name |-> nm_return, type |-> m.returns]>>)

\* str(method.__annotations__)
AnnotationsText(m) ==
    LET items == [i \in DOMAIN Annotations(m) |->
                     <<"'">> \o Annotations(m)[i].name \o <<"'", ":", " ">>
                     \o Annotations(m)[i].type[1].text]
    IN  <<"{">> \o JoinItems(items) \o <<"}">>

\* lines 177-180
IsKernelFunction(m) ==
    m.kernel \/ Contains(AnnotationsText(m), nm_kernel_function)

\* kernel_functions[name] = method, on a dictionary kept as its items in insertion order
DictSet(d, k, v) ==
    IF \E i \in DOMAIN d : d[i].key = k
    THEN [i \in DOMAIN d |-> IF d[i].key = k THEN [key |-> k, value |-> v] ELSE d[i]]
    ELSE Append(d, [key |-> k, value |-> v])

\* Mutant: the loop without the test for the private prefix.
RECURSIVE KernelFunctionsLoopNoPrivateSkip(_, _)
KernelFunctionsLoopNoPrivateSkip(members, acc) ==
    IF members = <<>> THEN acc
    ELSE LET m == members[1]
         IN  IF m.name = nm_get_all_kernel_functions
             THEN KernelFunctionsLoopNoPrivateSkip(Tail(members), acc)
             ELSE IF IsKernelFunction(m)
             THEN KernelFunctionsLoopNoPrivateSkip(Tail(members), DictSet(acc, m.name, m))
             ELSE KernelFunctionsLoopNoPrivateSkip(Tail(members), acc)

\* the for loop of get_all_kernel_functions, lines 170-181
RECURSIVE KernelFunctionsLoop(_, _)
KernelFunctionsLoop(members, acc) ==
    IF members = <<>> THEN acc
    ELSE LET m == members[1]
         IN  IF StartsWith(m.name, <<"_">>) \/ m.name = nm_get_all_kernel_functions
             THEN KernelFunctionsLoop(Tail(members), acc)
             ELSE IF IsKernelFunction(m)
             THEN KernelFunctionsLoop(Tail(members), DictSet(acc, m.name, m))
             ELSE KernelFunctionsLoop(Tail(members), acc)

\* Mutant: the registry built without the test for the private prefix.
GetAllKernelFunctionsNoPrivateSkip(c) == KernelFunctionsLoopNoPrivateSkip(GetMembers(c), <<>>)

\* get_all_kernel_functions, lines 167-183
GetAllKernelFunctions(c) == KernelFunctionsLoop(GetMembers(c), <<>>)

\* lines 229-245: the type tag of a parameter
ParamType(p) ==
    IF p.type = <<>> THEN tag_string
    ELSE LET type_obj == p.type[1]
         IN  IF type_obj.named THEN lower(type_obj.name)
             ELSE IF Contains(lower(type_obj.text), tag_int) THEN tag_int
             ELSE IF Contains(lower(type_obj.text), tag_float) THEN tag_float
             ELSE IF Contains(lower(type_obj.text), tag_bool) THEN tag_boolean
             ELSE tag_string

UpperChar(c) == IF IsIn(LowerCase, c) THEN UpperCase[IndexOf(LowerCase, c)] ELSE c

Cased(c) == IsIn(UpperCase, c) \/ IsIn(LowerCase, c)

\* str.replace("_", " ")
ReplaceUnderscores(s) == [i \in DOMAIN s |-> IF s[i] = "_" THEN " " ELSE s[i]]

\* str.title()
Title(s) ==
    [i \in DOMAIN s |-> IF i > 1 /\ Cased(s[i - 1]) THEN LowerChar(s[i]) ELSE UpperChar(s[i])]

\* lines 223-253: args_dict, a dictionary kept as its items in insertion order
ArgsDict(m) ==
    LET shown == SelectSeq(m.params, LAMBDA p : p.name \notin {<<"c","l","s">>, <<"s","e","l","f">>})
    IN  [i \in DOMAIN shown |->
            [ key |-> shown[i].name,
              value |-> [ description |-> shown[i].name,
                          title |-> Title(ReplaceUnderscores(shown[i].name)),
                          type |-> ParamType(shown[i]) ] ]]

\* lines 205-213: the stripped docstring, replaced by the description attribute
\* of the marker object when it has one
Description(m) == IF m.marker_description # "" THEN m.marker_description ELSE m.doc

\* lines 256-261; arguments stands for the text json.dumps gives for args_dict
ToolEntry(m) ==
    [ agent |-> "AgentType.SDG.value",
      function |-> m.name,
      description |-> Description(m),
      arguments |-> ArgsDict(m) ]

\* the for loop of generate_tools_json_doc, lines 197-263
RECURSIVE ToolsListLoop(_, _)
ToolsListLoop(members, acc) ==
    IF members = <<>> THEN acc
    ELSE LET m == members[1]
         IN  IF StartsWith(m.name, <<"_">>) \/ m.name = nm_generate_tools_json_doc
             THEN ToolsListLoop(Tail(members), acc)
             ELSE IF m.kernel
             THEN ToolsListLoop(Tail(members), Append(acc, ToolEntry(m)))
             ELSE ToolsListLoop(Tail(members), acc)

\* the array whose JSON text generate_tools_json_doc returns
GenerateToolsJsonDoc(c) == ToolsListLoop(GetMembers(c), <<>>)

\* Mutant: a name the registry does not hold yields an empty result.
InvokeToolDefaulting(c, name) ==
    LET registry == GetAllKernelFunctions(c)
    IN  IF \E i \in DOMAIN registry : registry[i].key = name
        THEN [outcome |-> "ran", ran |-> (CHOOSE i \in DOMAIN registry : registry[i].key = name)]
        ELSE [outcome |-> "returned", ran |-> 0]

\* invoke tool by name (spec 4.1): look the name up in the mapping of
\* get_all_kernel_functions; ran is the position of the entry that was called
InvokeTool(c, name) ==
    LET registry == GetAllKernelFunctions(c)
    IN  IF \E i \in DOMAIN registry : registry[i].key = name
        THEN [outcome |-> "ran", ran |-> (CHOOSE i \in DOMAIN registry : registry[i].key = name)]
        ELSE [outcome |-> "NotFound", ran |-> 0]

nm_no_such_tool ==
    <<"n","o","_","s","u","c","h","_","t","o","o","l">>

\* the names a caller may ask for: every member of the class, and one no class has
InvokeNames(c) == {c[i].name : i \in DOMAIN c} \cup {nm_no_such_tool}

get_all_kernel_functions ==
    /\ kfPrev' = kf
    /\ kf' = <<GetAllKernelFunctions(cls)>>
    /\ UNCHANGED <<agentVars, cls, doc, inv, tool>>

generate_tools_json_doc ==
    /\ doc' = <<GenerateToolsJsonDoc(cls)>>
    /\ UNCHANGED <<agentVars, cls, kf, kfPrev, inv, tool>>

invoke_tool ==
    \E name \in InvokeNames(cls) :
        /\ inv' = <<[name |-> name, result |-> InvokeTool(cls, name)]>>
        /\ UNCHANGED <<agentVars, cls, kf, kfPrev, doc, tool>>

InitRegistry ==
    /\ AgentIdle
    /\ cls \in Classes
    /\ kf = <<>>
    /\ kfPrev = <<>>
    /\ doc = <<>>
    /\ inv = <<>>
    /\ tool = <<>>

NextRegistry ==
    \/ get_all_kernel_functions
    \/ generate_tools_json_doc
    \/ invoke_tool

SpecRegistry == InitRegistry /\ [][NextRegistry]_vars

(***************************************************************************)
(* SDGTools (sdg_tools.py): the tools.                                     *)
(***************************************************************************)
formatting_instructions ==
    "Instructions: returning the output of this function call verbatim to the user in markdown. Then write AGENT SUMMARY: and then include a summary of what you did."

PreviewLen == 50

\* Mutant: the slice one character longer.
PreviewLonger(text) ==
    SubSeq(text, 1, IF Len(text) < PreviewLen + 1 THEN Len(text) ELSE PreviewLen + 1)

\* project_description[:50]
Preview(text) == SubSeq(text, 1, IF Len(text) < PreviewLen THEN Len(text) ELSE PreviewLen)

\* a description of the given length: x up to position turn, y after it
Description_xy(length, turn) == [i \in 1..length |-> IF i <= turn THEN "x" ELSE "y"]

DescriptionLengths == (0..MaxDescLen) \cup {4 * PreviewLen}

Descriptions ==
    {Description_xy(length, turn) : length \in DescriptionLengths, turn \in 0..(4 * PreviewLen)}

ToolSdgNumbers == {0, 4, 17}

TargetNumbers == {<<"1">>, <<"c">>}

\* lines 21-28
SDGTools_analyze_sdg4_alignment(project_description) ==
    <<"##### SDG 4 Alignment Analysis\n**Project:** ">>
    \o Preview(project_description)
    \o <<"...">>
    \o <<"\n\nAnalysis of project alignment with SDG 4 (Quality Education) completed.\n">>
    \o <<formatting_instructions>>

\* lines 34-41
SDGTools_analyze_sdg_alignment(sdg_number, project_description) ==
    <<"##### SDG ">>
    \o IntStr(sdg_number)
    \o <<" Alignment Analysis\n**Project:** ">>
    \o Preview(project_description)
    \o <<"...">>
    \o <<"\n\nAnalysis of project alignment with SDG ">>
    \o IntStr(sdg_number)
    \o <<" completed.\n">>
    \o <<formatting_instructions>>

\* lines 47-54
SDGTools_analyze_teacher_training(project_description) ==
    <<"##### Teacher Training Analysis for SDG 4\n**Project:** ">>
    \o Preview(project_description)
    \o <<"...">>
    \o <<"\n\nAnalysis of teacher training components and alignment with SDG 4 completed.\n">>
    \o <<formatting_instructions>>

\* lines 60-67
SDGTools_analyze_digital_learning_tools(project_description) ==
    <<"##### Digital Learning Tools Analysis for SDG 4\n**Project:** ">>
    \o Preview(project_description)
    \o <<"...">>
    \o <<"\n\nAnalysis of digital learning tools and alignment with SDG 4 completed.\n">>
    \o <<formatting_instructions>>

\* lines 73-80
SDGTools_analyze_gender_equality_in_education(project_description) ==
    <<"##### Gender Equality in Education Analysis (SDG 4.5)\n**Project:** ">>
    \o Preview(project_description)
    \o <<"...">>
    \o <<"\n\nAnalysis of gender equality aspects in education and alignment with SDG 4.5 completed.\n">>
    \o <<formatting_instructions>>

\* lines 86-93
SDGTools_analyze_education_accessibility(project_description) ==
    <<"##### Education Accessibility Analysis for Persons with Disabilities (SDG 4.5)\n**Project:** ">>
    \o Preview(project_description)
    \o <<"...">>
    \o <<"\n\nAnalysis of accessibility for persons with disabilities in education and alignment with SDG 4.5 completed.\n">>
    \o <<formatting_instructions>>

\* lines 99-105
SDGTools_suggest_sdg_indicators(sdg_number) ==
    <<"##### SDG ">>
    \o IntStr(sdg_number)
    \o <<" Indicators\n\nSuggested indicators for tracking SDG ">>
    \o IntStr(sdg_number)
    \o <<" impact have been provided.\n">>
    \o <<formatting_instructions>>

\* lines 111-117
SDGTools_identify_un_agencies(sdg_number) ==
    <<"##### UN Agencies for SDG ">>
    \o IntStr(sdg_number)
    \o <<"\n\nIdentified UN agencies relevant to SDG ">>
    \o IntStr(sdg_number)
    \o <<".\n">>
    \o <<formatting_instructions>>

\* lines 123-130
SDGTools_generate_sdg_recommendations(sdg_number, project_description) ==
    <<"##### SDG ">>
    \o IntStr(sdg_number)
    \o <<" Recommendations\n**Project:** ">>
    \o Preview(project_description)
    \o <<"...">>
    \o <<"\n\nRecommendations for improving alignment with SDG ">>
    \o IntStr(sdg_number)
    \o <<" have been generated.\n">>
    \o <<formatting_instructions>>

\* lines 136-144
SDGTools_analyze_sdg_interlinkages(primary_sdg, project_description) ==
    <<"##### SDG Interlinkages Analysis\n**Primary SDG:** ">>
    \o IntStr(primary_sdg)
    \o <<"\n**Project:** ">>
    \o Preview(project_description)
    \o <<"...">>
    \o <<"\n\nAnalysis of interlinkages between SDG ">>
    \o IntStr(primary_sdg)
    \o <<" and other SDGs completed.\n">>
    \o <<formatting_instructions>>

\* lines 150-156
SDGTools_provide_sdg_implementation_guidance(sdg_number, target_number) ==
    <<"##### Implementation Guidance for SDG ">>
    \o IntStr(sdg_number)
    \o <<".">>
    \o target_number
    \o <<"\n\nImplementation guidance for target ">>
    \o IntStr(sdg_number)
    \o <<".">>
    \o target_number
    \o <<" has been provided.\n">>
    \o <<formatting_instructions>>

Call_analyze_sdg4_alignment ==
    /\ tool = <<>>
    /\ \E project_description \in Descriptions :
        /\ tool' = << [ name |-> nm_analyze_sdg4_alignment,
                     args |-> [project_description |-> project_description],
                     text |-> SDGTools_analyze_sdg4_alignment(project_description) ] >>
        /\ UNCHANGED <<agentVars, registryVars>>

Call_analyze_sdg_alignment ==
    /\ tool = <<>>
    /\ \E sdg_number \in ToolSdgNumbers, project_description \in Descriptions :
        /\ tool' = << [ name |-> nm_analyze_sdg_alignment,
                     args |-> [sdg_number |-> sdg_number, project_description |-> project_description],
                     text |-> SDGTools_analyze_sdg_alignment(sdg_number, project_description) ] >>
        /\ UNCHANGED <<agentVars, registryVars>>

Call_analyze_teacher_training ==
    /\ tool = <<>>
    /\ \E project_description \in Descriptions :
        /\ tool' = << [ name |-> nm_analyze_teacher_training,
                     args |-> [project_description |-> project_description],
                     text |-> SDGTools_analyze_teacher_training(project_description) ] >>
        /\ UNCHANGED <<agentVars, registryVars>>

Call_analyze_digital_learning_tools ==
    /\ tool = <<>>
    /\ \E project_description \in Descriptions :
        /\ tool' = << [ name |-> nm_analyze_digital_learning_tools,
                     args |-> [project_description |-> project_description],
                     text |-> SDGTools_analyze_digital_learning_tools(project_description) ] >>
        /\ UNCHANGED <<agentVars, registryVars>>

Call_analyze_gender_equality_in_education ==
    /\ tool = <<>>
    /\ \E project_description \in Descriptions :
        /\ tool' = << [ name |-> nm_analyze_gender_equality_in_education,
                     args |-> [project_description |-> project_description],
                     text |-> SDGTools_analyze_gender_equality_in_education(project_description) ] >>
        /\ UNCHANGED <<agentVars, registryVars>>

Call_analyze_education_accessibility ==
    /\ tool = <<>>
    /\ \E project_description \in Descriptions :
        /\ tool' = << [ name |-> nm_analyze_education_accessibility,
                     args |-> [project_description |-> project_description],
                     text |-> SDGTools_analyze_education_accessibility(project_description) ] >>
        /\ UNCHANGED <<agentVars, registryVars>>

Call_suggest_sdg_indicators ==
    /\ tool = <<>>
    /\ \E sdg_number \in ToolSdgNumbers :
        /\ tool' = << [ name |-> nm_suggest_sdg_indicators,
                     args |-> [sdg_number |-> sdg_number],
                     text |-> SDGTools_suggest_sdg_indicators(sdg_number) ] >>
        /\ UNCHANGED <<agentVars, registryVars>>

Call_identify_un_agencies ==
    /\ tool = <<>>
    /\ \E sdg_number \in ToolSdgNumbers :
        /\ tool' = << [ name |-> nm_identify_un_agencies,
                     args |-> [sdg_number |-> sdg_number],
                     text |-> SDGTools_identify_un_agencies(sdg_number) ] >>
        /\ UNCHANGED <<agentVars, registryVars>>

Call_generate_sdg_recommendations ==
    /\ tool = <<>>
    /\ \E sdg_number \in ToolSdgNumbers, project_description \in Descriptions :
        /\ tool' = << [ name |-> nm_generate_sdg_recommendations,
                     args |-> [sdg_number |-> sdg_number, project_description |-> project_description],
                     text |-> SDGTools_generate_sdg_recommendations(sdg_number, project_description) ] >>
        /\ UNCHANGED <<agentVars, registryVars>>

Call_analyze_sdg_interlinkages ==
    /\ tool = <<>>
    /\ \E primary_sdg \in ToolSdgNumbers, project_description \in Descriptions :
        /\ tool' = << [ name |-> nm_analyze_sdg_interlinkages,
                     args |-> [primary_sdg |-> primary_sdg, project_description |-> project_description],
                     text |-> SDGTools_analyze_sdg_interlinkages(primary_sdg, project_description) ] >>
        /\ UNCHANGED <<agentVars, registryVars>>

Call_provide_sdg_implementation_guidance ==
    /\ tool = <<>>
    /\ \E sdg_number \in ToolSdgNumbers, target_number \in TargetNumbers :
        /\ tool' = << [ name |-> nm_provide_sdg_implementation_guidance,
                     args |-> [sdg_number |-> sdg_number, target_number |-> target_number],
                     text |-> SDGTools_provide_sdg_implementation_guidance(sdg_number, target_number) ] >>
        /\ UNCHANGED <<agentVars, registryVars>>

\* the caller takes the text; a tool keeps nothing from one call to the next
ToolReturn ==
    /\ tool # <<>>
    /\ tool' = <<>>
    /\ UNCHANGED <<agentVars, registryVars>>

NextTools ==
    \/ Call_analyze_sdg4_alignment
    \/ Call_analyze_sdg_alignment
    \/ Call_analyze_teacher_training
    \/ Call_analyze_digital_learning_tools
    \/ Call_analyze_gender_equality_in_education
    \/ Call_analyze_education_accessibility
    \/ Call_suggest_sdg_indicators
    \/ Call_identify_un_agencies
    \/ Call_generate_sdg_recommendations
    \/ Call_analyze_sdg_interlinkages
    \/ Call_provide_sdg_implementation_guidance
    \/ ToolReturn

InitTools ==
    /\ AgentIdle
    /\ cls = SDGTools
    /\ kf = <<>>
    /\ kfPrev = <<>>
    /\ doc = <<>>
    /\ inv = <<>>
    /\ tool = <<>>

SpecTools == InitTools /\ [][NextTools]_vars

InitAgent ==
    /\ AgentIdle
    /\ cls = SDGTools
    /\ kf = <<>>
    /\ kfPrev = <<>>
    /\ doc = <<>>
    /\ inv = <<>>
    /\ tool = <<>>

NextAgent ==
    \/ process_message
    \/ analyze_sdg_alignment
    \/ suggest_sdg_indicators
    \/ identify_un_agencies
    \/ CompletionReturns
    \/ CompletionFails
    \/ Return

SpecAgent == InitAgent /\ [][NextAgent]_vars

(***************************************************************************)
(* Properties of SDGAgent, checked under SpecAgent.                        *)
(***************************************************************************)
AlignmentKeywords == {kw_analyze, kw_alignment, kw_sdg}

IndicatorKeywords == {kw_indicator, kw_measure, kw_metric}

AgencyKeywords == {kw_agency, kw_agencies, kw_partner}

\* the lower-cased text contains one of the keywords
HasAny(text, keywords) == \E k \in keywords : Contains(lower(text), k)

InProcessMessage == op = "process_message" /\ pc \in {"awaiting", "done"}

\* C1: process_message routes by first match in the fixed order alignment,
\* indicators, agencies: a message with an alignment keyword is handled by
\* analyze_sdg_alignment; otherwise one with an indicator keyword by
\* suggest_sdg_indicators; otherwise one with an agency keyword by
\* identify_un_agencies.  One branch runs per message (one of the three
\* handlers, or the generic completion when no keyword matches): never two
\* handlers, and a message matching several categories is handled by the
\* earliest one only.
C1_FirstMatchRouting ==
    InProcessMessage =>
        /\ HasAny(arg, AlignmentKeywords) => invoked = <<"analyze_sdg_alignment">>
        /\ (~HasAny(arg, AlignmentKeywords) /\ HasAny(arg, IndicatorKeywords))
               => invoked = <<"suggest_sdg_indicators">>
        /\ (~HasAny(arg, AlignmentKeywords) /\ ~HasAny(arg, IndicatorKeywords)
                /\ HasAny(arg, AgencyKeywords))
               => invoked = <<"identify_un_agencies">>
        /\ Len(invoked) <= 1
        /\ Len(calls) = 1
        /\ invoked # <<>> => calls[1] = PromptOf(invoked[1], arg, <<>>)
        /\ invoked = <<>> => calls[1] = arg

\* a finished call whose message matches all three categories went to alignment only
C1_Witness ==
    /\ op = "process_message"
    /\ pc = "done"
    /\ HasAny(arg, AlignmentKeywords)
    /\ HasAny(arg, IndicatorKeywords)
    /\ HasAny(arg, AgencyKeywords)
    /\ invoked = <<"analyze_sdg_alignment">>

\* C2 as stated: every message containing "indicator" goes to
\* suggest_sdg_indicators and every message containing "agency" goes to
\* identify_un_agencies.
C2_AsStated ==
    InProcessMessage =>
        /\ Contains(arg, kw_indicator) => invoked = <<"suggest_sdg_indicators">>
        /\ Contains(arg, kw_agency) => invoked = <<"identify_un_agencies">>

\* C2 (amended): a message containing "indicator" and none of the alignment
\* keywords goes to suggest_sdg_indicators; a message containing "agency" and
\* none of the alignment or indicator keywords goes to identify_un_agencies.
C2_KeywordRoutesUnlessEarlierMatch ==
    InProcessMessage =>
        /\ (Contains(arg, kw_indicator) /\ ~HasAny(arg, AlignmentKeywords))
               => /\ invoked = <<"suggest_sdg_indicators">>
                  /\ calls = <<IndicatorsPrompt(arg)>>
        /\ (Contains(arg, kw_agency) /\ ~HasAny(arg, AlignmentKeywords)
                /\ ~HasAny(arg, IndicatorKeywords))
               => /\ invoked = <<"identify_un_agencies">>
                  /\ calls = <<AgenciesPrompt(arg)>>

\* a finished call on a message with "agency" and no earlier keyword
C2_Witness ==
    /\ op = "process_message"
    /\ pc = "done"
    /\ Contains(arg, kw_agency)
    /\ ~HasAny(arg, AlignmentKeywords)
    /\ ~HasAny(arg, IndicatorKeywords)
    /\ invoked = <<"identify_un_agencies">>
    /\ ret \in Responses

NoKeyword(text) ==
    ~HasAny(text, AlignmentKeywords \cup IndicatorKeywords \cup AgencyKeywords)

\* C3: for a message with none of the nine keywords process_message enters no
\* specialised handler, makes exactly one completion call whose prompt is the
\* message itself, unchanged, and returns the output of that call unmodified;
\* and the generic fallback is taken for such messages only.
C3_GenericFallback ==
    InProcessMessage =>
        /\ NoKeyword(arg) =>
              /\ invoked = <<>>
              /\ calls = <<arg>>
              /\ (pc = "done" /\ reply.kind = "returned") =>
                     (ret = reply.value /\ exc = NoValue)
        /\ invoked = <<>> => NoKeyword(arg)

\* a finished fallback call on a non-empty message with an upper-case letter
C3_Witness ==
    /\ op = "process_message"
    /\ pc = "done"
    /\ NoKeyword(arg)
    /\ arg # lower(arg)
    /\ calls = <<arg>>
    /\ reply.kind = "returned"
    /\ ret = reply.value

\* C10: every operation of the agent makes exactly one call to
\* completion_with_retry; when that call fails the same failure reaches the
\* caller, nothing is returned in its place, no second completion call is
\* made and no other handler is entered.
C10_FailurePropagates ==
    pc \in {"awaiting", "done"} =>
        /\ Len(calls) = 1
        /\ Len(invoked) <= 1
        /\ op \in Handlers => invoked = <<op>>
        /\ (pc = "done" /\ reply.kind = "raised") =>
              /\ exc = reply.value
              /\ ret = NoValue
        /\ (pc = "done" /\ reply.kind = "returned") => exc = NoValue

\* a routed process_message call whose completion call failed
C10_Witness ==
    /\ op = "process_message"
    /\ pc = "done"
    /\ invoked = <<"suggest_sdg_indicators">>
    /\ reply = [kind |-> "raised", value |-> "TimeoutError"]
    /\ exc = "TimeoutError"
    /\ ret = NoValue

\* C11: analyze_sdg_alignment sends one prompt that contains the whole
\* project_description; whenever an sdg_number is supplied (any integer, not
\* None) it is the SDG-specific prompt naming that number, and when none is
\* supplied it is the all-SDGs prompt; the completion output is returned
\* unmodified under the single key "analysis".
C11_AlignmentPromptAndResult ==
    (op = "analyze_sdg_alignment" /\ pc \in {"awaiting", "done"}) =>
        /\ Len(calls) = 1
        /\ Contains(calls[1], arg)
        /\ sdg # <<>> =>
              /\ calls[1][1] = "Please analyze the following project for alignment with SDG "
              /\ SubSeq(calls[1], 2, 1 + Len(IntStr(sdg[1]))) = IntStr(sdg[1])
        /\ sdg = <<>> =>
              calls[1][1] = "Please analyze the following project for alignment with the UN Sustainable Development Goals:\n\n"
        /\ (pc = "done" /\ reply.kind = "returned") =>
              (ret = [analysis |-> reply.value] /\ exc = NoValue)

(***************************************************************************)
(* Properties of the registry, checked under SpecRegistry.                 *)
(***************************************************************************)
\* the tools of SDGTools in the order the class declares them
DeclaredToolOrder ==
    << nm_analyze_sdg4_alignment,
       nm_analyze_sdg_alignment,
       nm_analyze_teacher_training,
       nm_analyze_digital_learning_tools,
       nm_analyze_gender_equality_in_education,
       nm_analyze_education_accessibility,
       nm_suggest_sdg_indicators,
       nm_identify_un_agencies,
       nm_generate_sdg_recommendations,
       nm_analyze_sdg_interlinkages,
       nm_provide_sdg_implementation_guidance >>

\* the same names in ascending order of their text
SortedToolOrder ==
    << nm_analyze_digital_learning_tools,
       nm_analyze_education_accessibility,
       nm_analyze_gender_equality_in_education,
       nm_analyze_sdg4_alignment,
       nm_analyze_sdg_alignment,
       nm_analyze_sdg_interlinkages,
       nm_analyze_teacher_training,
       nm_generate_sdg_recommendations,
       nm_identify_un_agencies,
       nm_provide_sdg_implementation_guidance,
       nm_suggest_sdg_indicators >>

Range(seq) == {seq[i] : i \in DOMAIN seq}

KeyOrder(d) == [i \in DOMAIN d |-> d[i].key]

FunctionOrder(manifest) == [i \in DOMAIN manifest |-> manifest[i].function]

\* the names of the class's members, in declaration order
MemberNames(c) == [i \in DOMAIN c |-> c[i].name]

\* the names kernel_function marked, whatever their spelling
MarkedNames(c) == {c[i].name : i \in {j \in DOMAIN c : c[j].kernel}}

\* C4: get_all_kernel_functions of SDGTools returns a mapping whose keys are
\* exactly the 11 declared tools, none twice; for every class the mapping
\* holds neither get_all_kernel_functions nor generate_tools_json_doc nor a
\* name beginning with "_", and each key maps to the member of that name.
C4_RegistryIsDeclaredTools ==
    kf # <<>> =>
        /\ cls = SDGTools =>
              /\ Range(KeyOrder(kf[1])) = Range(DeclaredToolOrder)
              /\ Range(KeyOrder(kf[1])) = MarkedNames(cls)
              /\ Len(kf[1]) = Len(DeclaredToolOrder)
        /\ \A i, j \in DOMAIN kf[1] : kf[1][i].key = kf[1][j].key => i = j
        /\ \A i \in DOMAIN kf[1] :
              /\ kf[1][i].key[1] # "_"
              /\ kf[1][i].key # nm_get_all_kernel_functions
              /\ kf[1][i].key # nm_generate_tools_json_doc
              /\ kf[1][i].value.name = kf[1][i].key
              /\ kf[1][i].value \in Range(cls)

\* the registry of SDGTools has been enumerated
C4_Witness ==
    /\ cls = SDGTools
    /\ kf # <<>>
    /\ Len(kf[1]) = Len(DeclaredToolOrder)
    /\ nm_provide_sdg_implementation_guidance \in Range(KeyOrder(kf[1]))

\* seq is the members' names in declaration order, restricted to those in seq
InDeclarationOrder(c, seq) ==
    seq = SelectSeq(MemberNames(c), LAMBDA n : n \in Range(seq))

\* C5 as stated: the entries of get_all_kernel_functions and the descriptors of
\* generate_tools_json_doc come in the order the class declares the tools
\* (analyze_sdg4_alignment first, provide_sdg_implementation_guidance last).
C5_AsStated ==
    /\ kf # <<>> =>
          /\ InDeclarationOrder(cls, KeyOrder(kf[1]))
          /\ cls = SDGTools => KeyOrder(kf[1]) = DeclaredToolOrder
    /\ doc # <<>> =>
          /\ InDeclarationOrder(cls, FunctionOrder(doc[1]))
          /\ cls = SDGTools => FunctionOrder(doc[1]) = DeclaredToolOrder

\* the names ascend strictly
Ascending(seq) == \A i, j \in DOMAIN seq : i < j => StrLess(seq[i], seq[j])

\* C5 (amended): the entries of get_all_kernel_functions and the descriptors
\* of generate_tools_json_doc come in ascending order of the tool names
\* (for SDGTools analyze_digital_learning_tools first, suggest_sdg_indicators
\* last), and a second call returns the same entries in the same order.
C5_NameOrderAndStable ==
    /\ kf # <<>> =>
          /\ Ascending(KeyOrder(kf[1]))
          /\ cls = SDGTools => KeyOrder(kf[1]) = SortedToolOrder
          /\ kfPrev # <<>> => kf = kfPrev
    /\ doc # <<>> =>
          /\ Ascending(FunctionOrder(doc[1]))
          /\ cls = SDGTools => FunctionOrder(doc[1]) = SortedToolOrder

\* SDGTools enumerated twice and its manifest generated
C5_Witness ==
    /\ cls = SDGTools
    /\ kf # <<>>
    /\ kfPrev # <<>>
    /\ doc # <<>>
    /\ KeyOrder(kf[1])[1] = nm_analyze_digital_learning_tools
    /\ FunctionOrder(doc[1])[Len(doc[1])] = nm_suggest_sdg_indicators

\* C6: for every tool class the manifest of generate_tools_json_doc has
\* exactly one descriptor per entry of get_all_kernel_functions: as many
\* descriptors as the mapping has entries, naming exactly its keys; with no
\* tool the manifest is the empty array.
C6_ManifestMatchesRegistry ==
    (kf # <<>> /\ doc # <<>>) =>
        /\ Len(doc[1]) = Len(kf[1])
        /\ FunctionOrder(doc[1]) = KeyOrder(kf[1])
        /\ MarkedNames(cls) = {} => doc[1] = <<>>

\* the tag the claim gives a parameter of the scalar types, of str, or without annotation
ClaimedTag(p) ==
    IF p.type = <<T_int>> THEN tag_int
    ELSE IF p.type = <<T_float>> THEN tag_float
    ELSE IF p.type = <<T_bool>> THEN tag_boolean
    ELSE tag_string

\* the member of the class with the given name
MemberNamed(c, n) == c[CHOOSE i \in DOMAIN c : c[i].name = n]

\* C7: in the manifest every parameter's type tag is one of "int", "float",
\* "boolean", "string": int gives "int", float "float", bool "boolean", and
\* str or a parameter without annotation "string".
C7_TypeTags ==
    doc # <<>> =>
        \A i \in DOMAIN doc[1] :
            LET m == MemberNamed(cls, doc[1][i].function)
            IN  \A j \in DOMAIN doc[1][i].arguments :
                    /\ doc[1][i].arguments[j].value.type
                           \in {tag_int, tag_float, tag_boolean, tag_string}
                    /\ m.params[j].type \in {<<>>, <<T_int>>, <<T_float>>, <<T_bool>>, <<T_str>>}
                           => doc[1][i].arguments[j].value.type = ClaimedTag(m.params[j])

\* C9: invoking a name that is not a key of get_all_kernel_functions fails
\* with NotFound: nothing is returned in its place and no tool runs.
C9_UnknownNameNotFound ==
    inv # <<>> =>
        /\ inv[1].name \notin Range(KeyOrder(GetAllKernelFunctions(cls)))
               => inv[1].result = [outcome |-> "NotFound", ran |-> 0]
        /\ inv[1].result.outcome = "ran"
               => GetAllKernelFunctions(cls)[inv[1].result.ran].key = inv[1].name

\* an unmarked member of the class was asked for and was not found
C9_Witness ==
    /\ inv # <<>>
    /\ inv[1].name = nm_helper
    /\ nm_helper \in Range(MemberNames(cls))
    /\ inv[1].result.outcome = "NotFound"

(***************************************************************************)
(* Properties of the tools, checked under SpecTools.                       *)
(***************************************************************************)
\* the positions of the text that hold a character of the description
EchoedAt(text) == {i \in DOMAIN text : text[i] \in {"x", "y"}}

\* C8: a tool that takes project_description, given a description longer
\* than 50 characters, returns a text that embeds exactly the first 50
\* characters of it, followed by "...", and no later character; and the
\* text of every tool ends with the formatting_instructions block.
C8_PreviewTruncation ==
    tool # <<>> =>
        LET text == tool[1].text
        IN  /\ text[Len(text)] = formatting_instructions
            /\ ("project_description" \in DOMAIN tool[1].args
                    /\ Len(tool[1].args.project_description) > 50) =>
                  LET description == tool[1].args.project_description
                      first == CHOOSE i \in EchoedAt(text) : \A k \in EchoedAt(text) : i <= k
                  IN  /\ Cardinality(EchoedAt(text)) = 50
                      /\ EchoedAt(text) = first..(first + 49)
                      /\ SubSeq(text, first, first + 49) = SubSeq(description, 1, 50)
                      /\ text[first + 50] = "..."

\* a 200-character description whose 51st and later characters differ from the first 50
C8_Witness ==
    /\ tool # <<>>
    /\ tool[1].name = nm_analyze_sdg_interlinkages
    /\ Len(tool[1].args.project_description) = 200
    /\ tool[1].args.project_description[50] = "x"
    /\ tool[1].args.project_description[51] = "y"
    /\ \A i \in DOMAIN tool[1].text : tool[1].text[i] # "y"

====
